---- MODULE Spec2Model ----
(***************************************************************************)
(* A model of the patricia-tree crate: the root container Trie (lib.rs)    *)
(* and the recursive TrieNode engine (node.rs).                            *)
(*                                                                         *)
(* Keys are finite sequences over a small alphabet.  The value type T is    *)
(* opaque to the code (no trait bound, never compared or inspected), so    *)
(* the value given to an insert call is the serial number of the call: it  *)
(* tells which call wrote a value that get returns.  Option<T> is a        *)
(* sequence of length at most one: None is <<>> and Some(v) is <<v>>.  A   *)
(* TrieNode is the record                                                  *)
(*   [key |-> fragment, value |-> Option, children |-> Seq(TrieNode)].     *)
(*                                                                         *)
(* debug_assert! is compiled in or out depending on the build, so the      *)
(* build is part of the state: with debug assertions a failing assertion   *)
(* panics at that point (the mutation done so far stays), without them the *)
(* code goes on past it.  The two builds behave alike until an assertion   *)
(* fails, so the build is left open ("any") until the first insert in      *)
(* which an assertion fails and is fixed there to "debug" or "release".    *)
(***************************************************************************)
EXTENDS Integers, Sequences, FiniteSets, TLC

\* ------------------------------------------------------------------ bounds
MaxLen == 3
MaxOps == 3

Bytes == {1, 2}

Keys == UNION {[1..n -> Bytes] : n \in 0..MaxLen}

\* ------------------------------------------------------------- Option<T>
None == <<>>
Some(v) == <<v>>

\* --------------------------------------------------------- get_match_len
RECURSIVE MatchLoop(_, _, _)
MatchLoop(a, b, match_len) ==
    IF match_len < Len(a) /\ match_len < Len(b) /\ a[match_len + 1] = b[match_len + 1]
    THEN MatchLoop(a, b, match_len + 1)
    ELSE match_len

\* a count of the positions where the two agree, not stopping at the first
\* that differs
get_match_len_count(a, b) ==
    Cardinality({i \in 1..Len(a) : i <= Len(b) /\ a[i] = b[i]})

get_match_len(a, b) == MatchLoop(a, b, 0)

\* key[n..] of the source: what is left after the first n elements
From(key, n) == SubSeq(key, n + 1, Len(key))

\* -------------------------------------------------------------- TrieNode
TrieNode_new == [key |-> <<>>, value |-> None, children |-> <<>>]

\* a prefix test that also accepts a match of length 0
prefix_match_loose(self, key) == get_match_len(self.key, key) >= 0

prefix_match(self, key) == get_match_len(self.key, key) > 0

RECURSIVE TrieNode_get(_, _), ScanGet(_, _, _)

\* the loop shared by TrieNode::get_children and Trie::get: the first child,
\* from index i on, whose get is Some
ScanGet(children, key, i) ==
    IF i > Len(children) THEN None
    ELSE LET value == TrieNode_get(children[i], key)
         IN  IF value # None THEN value ELSE ScanGet(children, key, i + 1)

get_children(self, key) == ScanGet(self.children, key, 1)

TrieNode_get(self, key) ==
    LET match_len == get_match_len(self.key, key)
    IN  IF match_len = Len(self.key)
        THEN IF match_len = Len(key)
             THEN self.value
             ELSE get_children(self, From(key, match_len))
        ELSE None

\* a new child put in front of the children instead of after them
add_new_child_front(self, key, value) ==
    [self EXCEPT !.children =
        <<[key |-> key, value |-> value, children |-> <<>>]>> \o @]

add_new_child(self, key, value) ==
    [self EXCEPT !.children =
        Append(@, [key |-> key, value |-> value, children |-> <<>>])]

\* index of the first node of a sequence that shares a prefix with key, 0 if none
FirstMatch(children, key) ==
    IF \E i \in 1..Len(children) : prefix_match(children[i], key)
    THEN CHOOSE i \in 1..Len(children) :
            /\ prefix_match(children[i], key)
            /\ \A j \in 1..(i - 1) : ~prefix_match(children[j], key)
    ELSE 0

\* The outcome of an insert: the node afterwards, the debug assertions whose
\* condition was false, whether the call panicked, and where the insert
\* ended: the branch taken and the child indices leading to the node it
\* was taken at.
Outcome(node, failed, panic, branch, path) ==
    [node |-> node, failed |-> failed, panic |-> panic,
     branch |-> branch, path |-> path]

RECURSIVE TrieNode_insert(_, _, _, _), insert_children(_, _, _, _)

insert_children(self, key, value, dbg) ==
    LET i == FirstMatch(self.children, key)
    IN  IF i # 0
        THEN LET r == TrieNode_insert(self.children[i], key, value, dbg)
             IN  [r EXCEPT !.node = [self EXCEPT !.children[i] = r.node],
                           !.path = <<i>> \o @]
        ELSE Outcome(add_new_child(self, key, Some(value)), {}, FALSE, "append", <<>>)

\* the branch taken when the whole fragment matched (node.rs 86-97)
InsertFullMatch(self, key, value, match_len, dbg) ==
    LET rest == From(key, match_len)
        bad == IF rest = <<>> THEN {"full_rest_nonempty"} ELSE {}
    IN  IF rest = <<>> /\ dbg
        THEN Outcome(self, bad, TRUE, "full", <<>>)
        ELSE IF self.children = <<>>
             THEN Outcome(add_new_child(self, rest, Some(value)), bad, FALSE, "leaf", <<>>)
             ELSE LET r == insert_children(self, rest, value, dbg)
                  IN  [r EXCEPT !.failed = @ \cup bad]

\* the branch that splits the node (node.rs 98-112)
InsertSplit(self, key, value, match_len, dbg) ==
    LET child_key == From(self.key, match_len)
        child_value == self.value
        shortened == [self EXCEPT !.key = SubSeq(self.key, 1, match_len),
                                  !.value = None]
        withChild == add_new_child(shortened, child_key, child_value)
        rest == From(key, match_len)
        bad == IF rest = <<>> THEN {"split_rest_nonempty"} ELSE {}
    IN  IF rest = <<>> /\ dbg
        THEN Outcome(withChild, bad, TRUE, "split", <<>>)
        ELSE Outcome(add_new_child(withChild, rest, Some(value)), bad, FALSE, "split", <<>>)

TrieNode_insert(self, key, value, dbg) ==
    IF self.key = <<>>
    THEN Outcome([self EXCEPT !.key = key, !.value = Some(value)], {}, FALSE, "new", <<>>)
    ELSE LET match_len == get_match_len(self.key, key)
             bad == IF match_len > 0 THEN {} ELSE {"match_len_positive"}
         IN  IF match_len = 0 /\ dbg
             THEN Outcome(self, bad, TRUE, "none", <<>>)
             ELSE LET r == IF match_len = Len(self.key)
                           THEN InsertFullMatch(self, key, value, match_len, dbg)
                           ELSE InsertSplit(self, key, value, match_len, dbg)
                  IN  [r EXCEPT !.failed = @ \cup bad]

TrieNode_delete(self, key) == self

\* ------------------------------------------------------------------ Trie
Trie_new == <<>>

Trie_get(children, key) == ScanGet(children, key, 1)

Trie_insert(children, key, value, dbg) ==
    LET fresh == TrieNode_insert(TrieNode_new, key, value, dbg)
        pushed == [fresh EXCEPT !.node = Append(children, fresh.node),
                                !.path = <<Len(children) + 1>>]
        i == FirstMatch(children, key)
    IN  IF children = <<>>
        THEN pushed
        ELSE IF i # 0
             THEN LET r == TrieNode_insert(children[i], key, value, dbg)
                  IN  [r EXCEPT !.node = [children EXCEPT ![i] = r.node],
                                !.path = <<i>> \o @]
             ELSE pushed

\* a delete that drops every top-level node sharing a prefix with the key
Trie_delete_by_prefix(children, key) ==
    SelectSeq(children, LAMBDA n : ~prefix_match(n, key))

\* a delete that clears the value of the top-level node whose fragment is
\* the key, and drops that node on a later call that finds it valueless
Trie_delete_deferred(children, key) ==
    IF \E i \in 1..Len(children) : children[i].key = key /\ children[i].value = None
    THEN SelectSeq(children, LAMBDA n : n.key # key)
    ELSE [i \in 1..Len(children) |->
             IF children[i].key = key
             THEN [children[i] EXCEPT !.value = None]
             ELSE children[i]]

Trie_delete(children, key) == children

\* ----------------------------------------------------------------- state
VARIABLES
    trie,              \* Trie.children: the top-level nodes
    build,             \* "debug" (debug_assert! compiled in), "release", or "any"
    panicked,          \* a debug assertion failed and the call unwound
    failed,            \* the assertions whose condition was false in the last insert
    pre,               \* the top-level nodes before the last operation
    last,              \* the last operation, its arguments and where it acted
    result,            \* what the last operation returned
    stored,            \* for each key the value of the latest insert call, if any
    dup,               \* some insert call was given a key given before
    nops,              \* number of operations so far
    m                  \* a call of get_match_len: its arguments and its result

vars == <<trie, build, panicked, failed, pre, last, result, stored, dup, nops, m>>

NoOp == [op |-> "none", key |-> <<>>, value |-> None, was |-> None,
         prevSame |-> "none", branch |-> "none", path |-> <<>>]

\* the name of the operation just before, when it was given the same key
PrevSame(key) == IF last.op # "none" /\ last.key = key THEN last.op ELSE "none"

\* no call of get_match_len on its own
NoMatch == [a |-> <<>>, b |-> <<>>, done |-> FALSE, len |-> 0]

InitTrie ==
    /\ trie = Trie_new
    /\ build = "any"
    /\ panicked = FALSE
    /\ failed = {}
    /\ pre = Trie_new
    /\ last = NoOp
    /\ result = None
    /\ stored = [k \in Keys |-> None]
    /\ dup = FALSE
    /\ nops = 0

Init ==
    /\ InitTrie
    /\ m = NoMatch

\* the builds the program may still turn out to be
Builds == IF build = "any" THEN {"debug", "release"} ELSE {build}

Insert(key) ==
    /\ ~panicked
    /\ nops < MaxOps
    /\ \E b \in Builds :
       LET value == nops + 1
           r == Trie_insert(trie, key, value, b = "debug")
       IN  /\ trie' = r.node
           /\ build' = IF r.failed = {} THEN build ELSE b
           /\ panicked' = r.panic
           /\ failed' = r.failed
           /\ last' = [op |-> "insert", key |-> key, value |-> Some(value),
                       was |-> stored[key], prevSame |-> PrevSame(key),
                       branch |-> r.branch, path |-> r.path]
           /\ stored' = [stored EXCEPT ![key] = Some(value)]
    /\ pre' = trie
    /\ result' = None
    /\ dup' = (dup \/ stored[key] # None)
    /\ nops' = nops + 1
    /\ UNCHANGED m

\* a lookup that leaves a valueless node behind for a key it did not find
Get_vivify(key) ==
    /\ ~panicked
    /\ nops < MaxOps
    /\ result' = Trie_get(trie, key)
    /\ trie' = IF Trie_get(trie, key) = None
               THEN Append(trie, [key |-> key, value |-> None, children |-> <<>>])
               ELSE trie
    /\ last' = [NoOp EXCEPT !.op = "get", !.key = key, !.was = stored[key],
                            !.prevSame = PrevSame(key)]
    /\ pre' = trie
    /\ failed' = {}
    /\ nops' = nops + 1
    /\ UNCHANGED <<build, panicked, stored, dup, m>>

Get(key) ==
    /\ ~panicked
    /\ nops < MaxOps
    /\ result' = Trie_get(trie, key)
    /\ last' = [NoOp EXCEPT !.op = "get", !.key = key, !.was = stored[key],
                            !.prevSame = PrevSame(key)]
    /\ pre' = trie
    /\ failed' = {}
    /\ nops' = nops + 1
    /\ UNCHANGED <<trie, build, panicked, stored, dup, m>>

Delete(key) ==
    /\ ~panicked
    /\ nops < MaxOps
    /\ trie' = Trie_delete(trie, key)
    /\ last' = [NoOp EXCEPT !.op = "delete", !.key = key, !.was = stored[key],
                            !.prevSame = PrevSame(key)]
    /\ pre' = trie
    /\ result' = None
    /\ failed' = {}
    /\ nops' = nops + 1
    /\ UNCHANGED <<build, panicked, stored, dup, m>>

Next ==
    \/ \E key \in Keys : Insert(key)
    \/ \E key \in Keys : Get(key)
    \/ \E key \in Keys : Delete(key)

Spec == Init /\ [][Next]_vars

\* ---------------------------------------- get_match_len called on its own
InitMatch ==
    /\ InitTrie
    /\ m \in [a : Keys, b : Keys, done : {FALSE}, len : {0}]

Match ==
    /\ ~m.done
    /\ m' = [m EXCEPT !.done = TRUE, !.len = get_match_len(m.a, m.b)]
    /\ UNCHANGED <<trie, build, panicked, failed, pre, last, result, stored, dup, nops>>

NextMatch == Match

SpecMatch == InitMatch /\ [][NextMatch]_vars

\* ------------------------------------------------- reading a trie's shape
RECURSIVE NodeCount(_), Shape(_), I1(_), NodeKeys(_, _), ValueKeys(_, _), NodeAt(_, _), Consumed(_, _)

\* number of nodes of a forest
NodeCount(children) ==
    IF children = <<>> THEN 0
    ELSE 1 + NodeCount(Head(children).children) + NodeCount(Tail(children))

\* the forest with every value erased: fragments and children only
Shape(children) ==
    [i \in 1..Len(children) |->
        [key |-> children[i].key, children |-> Shape(children[i].children)]]

\* invariant I1: sibling fragments share no non-empty prefix, at every level
I1(children) ==
    /\ \A i, j \in 1..Len(children) :
          i < j => get_match_len(children[i].key, children[j].key) = 0
    /\ \A i \in 1..Len(children) : I1(children[i].children)

\* accumulated paths (concatenated fragments) of all nodes below prefix
NodeKeys(children, prefix) ==
    UNION {{prefix \o children[i].key}
              \cup NodeKeys(children[i].children, prefix \o children[i].key) :
           i \in 1..Len(children)}

\* accumulated paths of the nodes that hold a value
ValueKeys(children, prefix) ==
    UNION {(IF children[i].value # None THEN {prefix \o children[i].key} ELSE {})
              \cup ValueKeys(children[i].children, prefix \o children[i].key) :
           i \in 1..Len(children)}

\* the node reached by following child indices from the top level
NodeAt(children, path) ==
    IF Len(path) = 1 THEN children[path[1]]
    ELSE NodeAt(children[path[1]].children, Tail(path))

\* number of key elements consumed by the ancestors of the node at path
Consumed(children, path) ==
    IF Len(path) = 1 THEN 0
    ELSE Len(children[path[1]].key) + Consumed(children[path[1]].children, Tail(path))

InsertDone == last.op = "insert" /\ ~panicked

\* ---------------------------------------------------------------- claims

\* C1: insert(K, V) followed immediately by get(K) returns Some(V), for
\* every key K in every trie reachable by inserts.  Stated for the
\* non-empty keys, so that a failure does not rest on the empty key.
C1_RoundTrip ==
    (InsertDone /\ last.key # <<>>) => Trie_get(trie, last.key) = last.value

\* C2: insert(K2, V2) leaves get(K1) unchanged for every key K1 # K2 that
\* was inserted earlier.
C2_NonInterference ==
    InsertDone =>
        \A k1 \in Keys :
            (k1 # last.key /\ stored[k1] # None) =>
                Trie_get(trie, k1) = Trie_get(pre, k1)

\* C3: inserting a key that is already stored makes get return the new
\* value and creates no node: node count, fragments and children are as
\* before.  Stated for the non-empty keys.
C3_Overwrite ==
    (InsertDone /\ last.was # None /\ last.key # <<>>) =>
        /\ Trie_get(trie, last.key) = last.value
        /\ NodeCount(trie) = NodeCount(pre)
        /\ Shape(trie) = Shape(pre)

\* C4: with pairwise distinct inserted keys, get(Q) is None for every Q
\* never inserted, and a value it returns is the one inserted under Q.
C4_ExactLookup ==
    (~dup /\ ~panicked) =>
        \A q \in Keys :
            Trie_get(trie, q) # None => Trie_get(trie, q) = stored[q]

\* C5: after any sequence of inserts no two siblings (top-level nodes or
\* children of one node) have fragments sharing a non-empty prefix.
C5_Compression ==
    ~panicked => I1(trie)

\* C6: after insert(K, V) followed by delete(K), get(K) returns None.
\* Stated for the non-empty keys.
C6_DeleteRoundTrip ==
    (last.op = "delete" /\ last.prevSame = "insert" /\ last.key # <<>>) =>
        Trie_get(trie, last.key) = None

\* C7: delete(K) for a key K with no value-bearing node leaves the whole
\* trie, and so every get, unchanged.
C7_DeleteMissingNoOp ==
    (last.op = "delete" /\ last.key \notin ValueKeys(pre, <<>>)) =>
        /\ trie = pre
        /\ \A q \in Keys : Trie_get(trie, q) = Trie_get(pre, q)

\* a delete of the path of an internal valueless node has happened
C7_Witness ==
    /\ last.op = "delete"
    /\ last.key \in NodeKeys(pre, <<>>) \ ValueKeys(pre, <<>>)
    /\ trie = pre

\* C8: delete(K); delete(K) leaves the trie structurally equal to the trie
\* after a single delete(K).
C8_DeleteIdempotent ==
    (last.op = "delete" /\ last.prevSame = "delete") => trie = pre

\* the same key was deleted twice in a row from a trie that holds it
C8_Witness ==
    /\ last.op = "delete"
    /\ last.prevSame = "delete"
    /\ last.key \in ValueKeys(pre, <<>>)
    /\ trie = pre

\* C9: an insert that splits a node (0 < match_len < fragment length, key
\* remainder longer than match_len) leaves the node with the first
\* match_len bytes, no value and exactly two children: the old suffix with
\* the old value and all the old children, and the rest of the key with
\* the new value and no children.
C9_SplitCorrect ==
    (InsertDone /\ last.branch = "split") =>
        LET old == NodeAt(pre, last.path)
            new == NodeAt(trie, last.path)
            rem == From(last.key, Consumed(pre, last.path))
            match_len == get_match_len(old.key, rem)
        IN  (0 < match_len /\ match_len < Len(old.key) /\ Len(rem) > match_len) =>
                new = [key |-> SubSeq(old.key, 1, match_len),
                       value |-> None,
                       children |->
                          << [key |-> From(old.key, match_len),
                              value |-> old.value,
                              children |-> old.children],
                             [key |-> From(rem, match_len),
                              value |-> last.value,
                              children |-> <<>>] >>]

\* C10: with pairwise distinct non-empty keys neither "remaining key is
\* non-empty" assertion of TrieNode::insert is ever false.
C10_AssertionsHold ==
    (~dup /\ stored[<<>>] = None) =>
        failed \cap {"full_rest_nonempty", "split_rest_nonempty"} = {}

\* ------------------------------------------------ addressing single nodes
RECURSIVE NodePaths(_), PathKey(_, _)

\* the child-index paths of all nodes of a forest
NodePaths(children) ==
    UNION {{<<i>>} \cup {<<i>> \o p : p \in NodePaths(children[i].children)} :
           i \in 1..Len(children)}

\* the accumulated path of the node at a child-index path: the fragments
\* from the top level down to it, concatenated
PathKey(children, path) ==
    IF Len(path) = 1 THEN children[path[1]].key
    ELSE children[path[1]].key \o PathKey(children[path[1]].children, Tail(path))

\* C11: after inserts of non-empty keys, assertions compiled out, every
\* node of the trie has a non-empty fragment.
C11_NonEmptyFragments ==
    (stored[<<>>] = None /\ build # "debug") =>
        \A p \in NodePaths(trie) : NodeAt(trie, p).key # <<>>

\* C12: (a) the accumulated path of every value-bearing node is a key that
\* was inserted and the node holds the value last inserted under it, and
\* (b) no two value-bearing nodes have the same accumulated path.  Stated
\* for tries the empty key was never inserted in.
C12_PathUniqueness ==
    (stored[<<>>] = None /\ ~panicked) =>
        \A p \in NodePaths(trie) :
            NodeAt(trie, p).value # None =>
                /\ PathKey(trie, p) \in Keys
                /\ stored[PathKey(trie, p)] = NodeAt(trie, p).value
                /\ \A q \in NodePaths(trie) :
                      (q # p /\ NodeAt(trie, q).value # None) =>
                          PathKey(trie, q) # PathKey(trie, p)

\* C13: get(Q) leaves the whole trie unchanged for every query key Q: every
\* node's fragment, value and children, and the number of nodes; a lookup
\* creates no node.
C13_GetIsPureRead ==
    last.op = "get" =>
        /\ trie = pre
        /\ NodeCount(trie) = NodeCount(pre)

\* a lookup of a key that is the path of no node, in a non-empty trie, has
\* returned None
C13_Witness ==
    /\ last.op = "get"
    /\ result = None
    /\ trie # <<>>
    /\ last.key \notin NodeKeys(pre, <<>>)
    /\ trie = pre

\* C14: an insert whose key remainder is wholly consumed by a partial match
\* (remainder length = match_len < fragment length) leaves the shortened
\* node holding the new value, with exactly one new child, which holds the
\* old fragment suffix and the old value; no child with an empty fragment
\* is created.  Stated for tries the empty key was never inserted in.
C14_PrefixInsert ==
    (InsertDone /\ last.branch = "split" /\ stored[<<>>] = None) =>
        LET old == NodeAt(pre, last.path)
            new == NodeAt(trie, last.path)
            rem == From(last.key, Consumed(pre, last.path))
            match_len == get_match_len(old.key, rem)
        IN  (0 < match_len /\ match_len < Len(old.key) /\ Len(rem) = match_len) =>
                /\ new.key = rem
                /\ new.value = last.value
                /\ Len(new.children) = Len(old.children) + 1
                /\ \E i \in 1..Len(new.children) :
                      /\ new.children[i].key = From(old.key, match_len)
                      /\ new.children[i].value = old.value
                /\ \A i \in 1..Len(new.children) : new.children[i].key # <<>>

\* C15: every call of TrieNode::insert on a node with a non-empty fragment
\* that Trie::insert makes, directly or through insert_children, finds a
\* common prefix of length at least 1: the assertion match_len > 0 is never
\* false, whatever the keys.
C15_MatchLenPositive ==
    "match_len_positive" \notin failed

\* an insert has gone through insert_children into a child with a non-empty
\* fragment and found the assertion true there
C15_Witness ==
    /\ last.op = "insert"
    /\ Len(last.path) >= 2
    /\ last.branch \in {"split", "leaf"}
    /\ "match_len_positive" \notin failed

\* C16: after inserts of pairwise distinct non-empty keys every node that
\* holds no value has at least two children.
C16_NoRedundantNodes ==
    (~dup /\ stored[<<>>] = None /\ ~panicked) =>
        \A p \in NodePaths(trie) :
            NodeAt(trie, p).value = None => Len(NodeAt(trie, p).children) >= 2

RECURSIVE ReplaceAt(_, _, _)

\* the forest with the node at a child-index path replaced
ReplaceAt(children, path, node) ==
    IF Len(path) = 1 THEN [children EXCEPT ![path[1]] = node]
    ELSE [children EXCEPT ![path[1]] =
             [@ EXCEPT !.children = ReplaceAt(@, Tail(path), node)]]

\* a node with the given fragment and value and no children
Leaf(key, value) == [key |-> key, value |-> value, children |-> <<>>]

\* the insert ended at a node of the old trie whose fragment the key
\* remainder matched in full, none of whose children shares a prefix with
\* what is left of the remainder
EndsBelowFullMatch ==
    /\ last.branch \in {"leaf", "append"}
    /\ LET old == NodeAt(pre, last.path)
           rem == From(last.key, Consumed(pre, last.path))
       IN  /\ get_match_len(old.key, rem) = Len(old.key)
           /\ FirstMatch(old.children, From(rem, Len(old.key))) = 0

\* C17: an insert of a key K that shares no prefix with any top-level
\* fragment appends exactly one top-level node (K, V, no children) and
\* leaves every other top-level node and its subtree unchanged; an insert
\* whose non-empty remainder shares no prefix with any child of the fully
\* matched node appends exactly one child (remainder, V, no children) to
\* that node and changes nothing else.
C17_NewSiblingLocal ==
    last.op = "insert" =>
        /\ FirstMatch(pre, last.key) = 0 =>
              /\ ~panicked
              /\ trie = Append(pre, Leaf(last.key, last.value))
        /\ (FirstMatch(pre, last.key) # 0 /\ EndsBelowFullMatch) =>
              LET old == NodeAt(pre, last.path)
                  rest == From(last.key, Consumed(pre, last.path) + Len(old.key))
              IN  rest # <<>> =>
                     /\ ~panicked
                     /\ trie = ReplaceAt(pre, last.path,
                           [old EXCEPT !.children = Append(@, Leaf(rest, last.value))])

\* a child was appended below a fully matched node, in a trie whose second
\* top-level node an earlier insert had appended
C17_Witness ==
    /\ InsertDone
    /\ Len(pre) >= 2
    /\ FirstMatch(pre, last.key) # 0
    /\ EndsBelowFullMatch
    /\ Len(NodeAt(trie, last.path).children) = Len(NodeAt(pre, last.path).children) + 1
    /\ Len(trie) = Len(pre)

\* C18: an insert of K followed by a non-empty suffix S, where K is the
\* accumulated path of an existing node that has no children, adds exactly
\* one child (S, V) under that node and leaves the node's fragment and
\* value and every other node unchanged; afterwards get(K) returns the
\* node's old value and get(K \o S) returns V.  Stated for non-empty K.
C18_ChainedAbsorption ==
    InsertDone =>
        \A p \in NodePaths(pre) :
            LET node == NodeAt(pre, p)
                K == PathKey(pre, p)
                S == From(last.key, Len(K))
            IN  (/\ node.children = <<>>
                 /\ K # <<>>
                 /\ Len(K) < Len(last.key)
                 /\ get_match_len(K, last.key) = Len(K)) =>
                    /\ trie = ReplaceAt(pre, p,
                                [node EXCEPT !.children = <<Leaf(S, last.value)>>])
                    /\ Trie_get(trie, K) = node.value
                    /\ Trie_get(trie, last.key) = last.value

\* the smaller of two numbers
Min(x, y) == IF x <= y THEN x ELSE y

\* C19: get_match_len(a, b) is the largest n <= min(len(a), len(b)) such
\* that the first n elements of a and b are equal; it is 0 when either is
\* empty or the first elements differ; and get_match_len(b, a) is the same.
C19_MatchLen ==
    m.done =>
        /\ m.len \in 0..Min(Len(m.a), Len(m.b))
        /\ SubSeq(m.a, 1, m.len) = SubSeq(m.b, 1, m.len)
        /\ \A n \in (m.len + 1)..Min(Len(m.a), Len(m.b)) :
              SubSeq(m.a, 1, n) # SubSeq(m.b, 1, n)
        /\ (m.a = <<>> \/ m.b = <<>> \/ m.a[1] # m.b[1]) => m.len = 0
        /\ get_match_len(m.b, m.a) = m.len

\* two sequences of full length that agree on two elements and then differ
\* have been compared
C19_Witness ==
    /\ m.done
    /\ m.len = 2
    /\ Len(m.a) > 2
    /\ Len(m.b) > 2
    /\ m.a[3] # m.b[3]

====
